---- MODULE Spec2Model ----
(***************************************************************************)
(* Model of elsa/_cli.py: the Elsa object (freeze, freeze_fail_exit,       *)
(* serve, deploy) and the click commands built by Elsa.cli (serve, freeze, *)
(* deploy).  One process is modelled.  It either runs one command of the   *)
(* command line on a newly made Elsa object, which ends the process, or is *)
(* a script that calls the methods of one Elsa object, at most MaxCalls    *)
(* times.                                                                  *)
(*                                                                         *)
(* Strings that the code takes apart (URLs) are sequences of one-character *)
(* strings; strings that the code only tests for emptiness or passes on    *)
(* (paths, remotes) are TLA+ strings.  A falsy Python value (None, '' or a *)
(* missing config key) is the empty sequence / the empty string.           *)
(***************************************************************************)
EXTENDS Integers, Sequences, FiniteSets, TLC

\* Number of method calls a script makes on one Elsa object.
MaxCalls == 2

----------------------------------------------------------------------------
(* Values *)

EmptyUrl == << >>

UrlHttpA == <<"h", ":", "/", "/", "a", "/">>
UrlHttpBC == <<"h", ":", "/", "/", "b", ".", "c">>
UrlNoScheme == <<"a", "/", "p">>
UrlSchemeless == <<"/", "/", "c", "?", "q">>

\* The base_url arguments and --base-url values a caller passes, unset included.
ArgUrls == {EmptyUrl, UrlHttpA, UrlNoScheme}

\* The base_url an Elsa object is constructed with, unset included.
ObjectUrls == {EmptyUrl, UrlHttpBC}

\* FREEZER_BASE_URL values configured before any freeze, unset included.
ConfiguredUrls == {EmptyUrl, UrlSchemeless}

\* The host names a SERVER_NAME may hold before any freeze.
ServerNames == {EmptyUrl, <<"z">>}

EmptyPath == ""

\* Paths a script passes, unset included.
Paths == {EmptyPath, "out"}

\* --path values: DefaultPath is the option's default (root_path/_build).
DefaultPath == "_build"
CliPaths == {EmptyPath, DefaultPath}

\* FREEZER_DESTINATION values configured before any freeze.
ConfiguredPaths == {EmptyPath, "dst"}

DEFAULT_REMOTE == "origin"
Remotes == {DEFAULT_REMOTE, "upstream"}

----------------------------------------------------------------------------
(* urllib.parse.urlparse(url).netloc *)

Letters == {"h", "a", "b", "c", "p", "q", "z"}
SchemeChars == Letters \cup {"+", "-", "."}
NetlocDelims == {"/", "?", "#"}

\* str.find(ch): the first index (1-based) of ch in s, 0 when there is none.
Find(s, ch) ==
    IF \E i \in 1..Len(s) : s[i] = ch
    THEN CHOOSE i \in 1..Len(s) : s[i] = ch /\ \A j \in 1..(i - 1) : s[j] # ch
    ELSE 0

\* The url with its scheme and the colon removed, when it starts with one.
StripScheme(url) ==
    LET i == Find(url, ":")
    IN IF i > 1 /\ url[1] \in Letters /\ \A j \in 1..(i - 1) : url[j] \in SchemeChars
       THEN SubSeq(url, i + 1, Len(url))
       ELSE url

\* The end of the netloc of rest, which starts with "//": the first of / ? #
\* after the two slashes, or the end of the string.
NetlocEnd(rest) ==
    IF \E i \in 3..Len(rest) : rest[i] \in NetlocDelims
    THEN (CHOOSE i \in 3..Len(rest) :
            rest[i] \in NetlocDelims /\ \A j \in 3..(i - 1) : rest[j] \notin NetlocDelims) - 1
    ELSE Len(rest)

Netloc(url) ==
    LET rest == StripScheme(url)
    IN IF Len(rest) >= 2 /\ rest[1] = "/" /\ rest[2] = "/"
       THEN SubSeq(rest, 3, NetlocEnd(rest))
       ELSE << >>

----------------------------------------------------------------------------
(* The warnings module: a list of filters, the first match decides *)

FrozenFlaskWarning == "FrozenFlaskWarning"
DeprecationWarning == "DeprecationWarning"
AnyWarning == "Warning"

Filter(action, category) == [action |-> action, category |-> category]

\* Filter lists in force when the process starts: Python's default
\* (DeprecationWarning ignored) and -W ignore.
InitialFilters ==
    { <<Filter("ignore", DeprecationWarning)>>,
      <<Filter("ignore", AnyWarning)>> }

Matches(f, category) == f.category = AnyWarning \/ f.category = category

\* fs without the filters equal to f (list.remove of an item held once).
Without(fs, f) == SelectSeq(fs, LAMBDA g : g # f)

\* warnings.filterwarnings(action, category=category): an equal filter is
\* removed and the new one is inserted at the front.
FilterWarnings(action, category, fs) ==
    <<Filter(action, category)>> \o Without(fs, Filter(action, category))

\* warnings.simplefilter(action): every category, inserted at the front.
SimpleFilter(action, fs) ==
    <<Filter(action, AnyWarning)>> \o Without(fs, Filter(action, AnyWarning))

\* The action warnings.warn takes for a warning of the category.
WarnAction(fs, category) ==
    IF \E i \in 1..Len(fs) : Matches(fs[i], category)
    THEN fs[CHOOSE i \in 1..Len(fs) :
               Matches(fs[i], category) /\ \A j \in 1..(i - 1) : ~Matches(fs[j], category)].action
    ELSE "default"

----------------------------------------------------------------------------
(* State *)

VARIABLES
    selfBaseUrl,  \* Elsa.base_url
    config0,      \* app.config when the Elsa object was constructed
    config,       \* app.config: FREEZER_BASE_URL, FREEZER_DESTINATION, SERVER_NAME
    filters,      \* warnings.filters
    routes,       \* the routes this module has added to app
    pc,           \* "idle" | "exited"
    exitCode,     \* the process's exit code once pc = "exited", -1 before
    nCalls,       \* method calls made so far
    op,           \* the last operation: its name, arguments, state before, exception
    trace,        \* the calls the last operation made on its collaborators, in order
    lastRun,      \* the state freezer.freeze() ran in, in the last operation
    lastDeploy    \* the arguments deploy_ was called with, in the last operation

vars == <<selfBaseUrl, config0, config, filters, routes, pc, exitCode, nCalls,
          op, trace, lastRun, lastDeploy>>

CnameRoute == "/CNAME"
ShutdownRoute == "/__shutdown__/"

NoRun == [ran |-> FALSE, base |-> EmptyUrl, dest |-> EmptyPath, server |-> EmptyUrl,
          routes |-> {}, cname |-> EmptyUrl, filters |-> << >>, outcome |-> "none"]

NoDeploy == [calls |-> 0, path |-> EmptyPath, remote |-> "", push |-> FALSE,
             show_err |-> FALSE]

\* What the freezer meets while rendering: nothing, an inconsistency it reports
\* with warnings.warn(FrozenFlaskWarning), or an error it raises itself.
FreezerEvents == {"clean", "warn", "raise"}

\* How the publisher ends.
DeployEvents == {"ok", "fail"}

\* The state an operation works on and returns: the program's state plus the
\* exception in flight ("none" when there is none).
Enter == [config |-> config, filters |-> filters, routes |-> routes,
          trace |-> << >>, run |-> NoRun, dep |-> NoDeploy, exc |-> "none"]

Raise(st, e) == [st EXCEPT !.exc = e]
Call(st, what) == [st EXCEPT !.trace = Append(@, what)]

----------------------------------------------------------------------------
(* Elsa's methods, as functions of the state they work on *)

\* Elsa._inject_cname: registers the /CNAME route; its view reads
\* app.config['SERVER_NAME'] when the route is rendered.
InjectCname(st) == Call([st EXCEPT !.routes = @ \cup {CnameRoute}], "inject_cname")

\* Elsa._inject_shutdown
InjectShutdown(st) == Call([st EXCEPT !.routes = @ \cup {ShutdownRoute}], "inject_shutdown")

\* What the /CNAME view returns when rendered under the configuration cfg.
CnameView(cfg) == cfg.SERVER_NAME

\* Variant: the configured value is tried before the argument and the object's.
ResolveBaseUrlConfigFirst(base_url, self_base_url, cfg) ==
    IF cfg.FREEZER_BASE_URL # EmptyUrl THEN cfg.FREEZER_BASE_URL
    ELSE IF base_url # EmptyUrl THEN base_url
    ELSE self_base_url

\* base_url or self.base_url or app.config.get('FREEZER_BASE_URL')
ResolveBaseUrl(base_url, self_base_url, cfg) ==
    IF base_url # EmptyUrl THEN base_url
    ELSE IF self_base_url # EmptyUrl THEN self_base_url
    ELSE cfg.FREEZER_BASE_URL

\* Variant: the configured destination is tried before the argument.
ResolvePathConfigFirst(path, cfg) ==
    IF cfg.FREEZER_DESTINATION # EmptyPath THEN cfg.FREEZER_DESTINATION ELSE path

\* path or app.config.get('FREEZER_DESTINATION')
ResolvePath(path, cfg) ==
    IF path # EmptyPath THEN path ELSE cfg.FREEZER_DESTINATION

\* Variant: the whole URL is taken for the server name.
ServerNameWholeUrl(base_url) == base_url

\* urllib.parse.urlparse(base_url).netloc, the value given to SERVER_NAME
ServerNameOf(base_url) == Netloc(base_url)

\* Variant: the filter is appended (append=True), so earlier filters win.
EscalateWarningsAppended(fs) ==
    IF \E i \in 1..Len(fs) : fs[i] = Filter("error", FrozenFlaskWarning)
    THEN fs
    ELSE Append(fs, Filter("error", FrozenFlaskWarning))

\* The warning filter Elsa.freeze installs before the freezer runs.
EscalateWarnings(fs) == FilterWarnings("error", FrozenFlaskWarning, fs)

\* self.freezer.freeze(): the freezer renders the application as configured.
\* An inconsistency is reported with warnings.warn, which raises the warning
\* when the filters say "error" and lets the freezer go on otherwise.
FreezerFreeze(st, event) ==
    LET ran == [ran |-> TRUE,
                base |-> st.config.FREEZER_BASE_URL,
                dest |-> st.config.FREEZER_DESTINATION,
                server |-> st.config.SERVER_NAME,
                routes |-> st.routes,
                cname |-> IF CnameRoute \in st.routes THEN CnameView(st.config)
                          ELSE EmptyUrl,
                filters |-> st.filters,
                outcome |-> event]
        s1 == Call([st EXCEPT !.run = ran], "freezer.freeze")
    IN CASE event = "clean" -> s1
         [] event = "warn" ->
              IF WarnAction(st.filters, FrozenFlaskWarning) = "error"
              THEN Raise(s1, "FrozenFlaskWarning")
              ELSE s1
         [] event = "raise" -> Raise(s1, "Exception")

\* Variant: the destination path is not checked before the freezer runs.
FreezeWithoutPathCheck(st, path, base_url, event) ==
    LET b == ResolveBaseUrl(base_url, selfBaseUrl, st.config)
        p == ResolvePath(path, st.config)
        s1 == [st EXCEPT !.config = [FREEZER_BASE_URL |-> b,
                                     FREEZER_DESTINATION |-> p,
                                     SERVER_NAME |-> ServerNameOf(b)]]
        s2 == [s1 EXCEPT !.filters = EscalateWarnings(@)]
    IN IF b = EmptyUrl THEN Raise(st, "ValueError")
       ELSE FreezerFreeze(s2, event)

\* Elsa.freeze(path, base_url)
Freeze(st, path, base_url, event) ==
    LET b == ResolveBaseUrl(base_url, selfBaseUrl, st.config)
        p == ResolvePath(path, st.config)
        s1 == [st EXCEPT !.config = [FREEZER_BASE_URL |-> b,
                                     FREEZER_DESTINATION |-> p,
                                     SERVER_NAME |-> ServerNameOf(b)]]
        s2 == [s1 EXCEPT !.filters = EscalateWarnings(@)]
    IN IF b = EmptyUrl THEN Raise(st, "ValueError")
       ELSE IF p = EmptyPath THEN Raise(s1, "ValueError")
       ELSE FreezerFreeze(s2, event)

\* Variant: the warning is printed and the process is not ended.
FreezeFailExitWithoutExit(st, path, base_url, event) ==
    LET s1 == Freeze(st, path, base_url, event)
    IN IF s1.exc = "FrozenFlaskWarning"
       THEN [Call(s1, "print_error") EXCEPT !.exc = "none"]
       ELSE s1

\* Elsa.freeze_fail_exit(path, base_url): a Frozen-Flask warning raised by the
\* freeze is printed and the process exits with code 1.
FreezeFailExit(st, path, base_url, event) ==
    LET s1 == Freeze(st, path, base_url, event)
    IN IF s1.exc = "FrozenFlaskWarning"
       THEN Raise(Call(s1, "print_error"), "SystemExit1")
       ELSE s1

\* Elsa.serve(port): self.freezer.serve(port=port)
Serve(st) == Call(st, "serve")

\* deploy_(path, remote=, push=, show_err=) of elsa._deployment
DeployUnderscore(st, path, remote, push, show_err, event) ==
    LET s1 == Call([st EXCEPT !.dep = [calls |-> @.calls + 1, path |-> path,
                                       remote |-> remote, push |-> push,
                                       show_err |-> show_err]], "deploy_")
    IN IF event = "fail" THEN Raise(s1, "DeployError") ELSE s1

\* Elsa.deploy(path=None, remote=None, push=False, show_err=False)
Deploy(st, path, remote, push, show_err, event) ==
    DeployUnderscore(st, ResolvePath(path, st.config),
                     IF remote # "" THEN remote ELSE DEFAULT_REMOTE,
                     push, show_err, event)

----------------------------------------------------------------------------
(* The commands of Elsa.cli *)

PushOptions == {"unset", "--push", "--no-push"}

\* warnings.warn(msg, category) under the filters in force.
Warn(st, category) ==
    LET action == WarnAction(st.filters, category)
    IN CASE action = "error" -> Raise(st, category)
         [] action = "ignore" -> st
         [] OTHER -> Call(st, "emit_warning")

\* The deprecated default of the deploy command: without --push/--no-push the
\* command warns and pushes.
DeprecatedPushDefault(st) ==
    Warn([st EXCEPT !.filters = SimpleFilter("always", @)], DeprecationWarning)

\* Variant: only an explicit --push pushes.
PushOfExplicitOnly(pushOpt) == pushOpt = "--push"

\* The push value the deploy command passes on.
PushOf(pushOpt) == pushOpt # "--no-push"

\* Variant: the freezing commands attach the shutdown route as serve does.
CliFreezePartWithShutdown(st, path, base_url, cname, event) ==
    LET s0 == InjectShutdown(st)
        s1 == IF cname THEN InjectCname(s0) ELSE s0
    IN IF base_url = EmptyUrl THEN Raise(s1, "UsageError")
       ELSE FreezeFailExit(s1, path, base_url, event)

\* The freezing part shared by the freeze and deploy commands.
CliFreezePart(st, path, base_url, cname, event) ==
    LET s1 == IF cname THEN InjectCname(st) ELSE st
    IN IF base_url = EmptyUrl THEN Raise(s1, "UsageError")
       ELSE FreezeFailExit(s1, path, base_url, event)

\* serve(port, cname)
CliServe(st, cname) ==
    LET s1 == InjectShutdown(st)
        s2 == IF cname THEN InjectCname(s1) ELSE s1
    IN Call(s2, "app.run")

\* freeze(path, base_url, serve, port, cname)
CliFreeze(st, path, base_url, serve, cname, event) ==
    LET s1 == CliFreezePart(st, path, base_url, cname, event)
    IN IF s1.exc = "none" /\ serve THEN Serve(s1) ELSE s1

\* deploy(path, base_url, remote, push, freeze, show_git_push_stderr, cname)
CliDeploy(st, path, base_url, remote, pushOpt, freeze, show_err, cname, event, devent) ==
    LET s1 == IF pushOpt = "unset" THEN DeprecatedPushDefault(st) ELSE st
        s2 == IF s1.exc = "none" /\ freeze
              THEN CliFreezePart(s1, path, base_url, cname, event)
              ELSE s1
    IN IF s2.exc = "none"
       THEN DeployUnderscore(s2, path, remote, PushOf(pushOpt), show_err, devent)
       ELSE s2

\* The exit code of a command that ended with the exception exc: click exits
\* with 2 on a UsageError, sys.exit(1) and an uncaught exception give 1.
ExitCodeOf(exc) ==
    CASE exc = "none" -> 0
      [] exc = "UsageError" -> 2
      [] OTHER -> 1

----------------------------------------------------------------------------
(* Actions *)

NoOp == [name |-> "none", path |-> EmptyPath, base_url |-> EmptyUrl, remote |-> "",
         push |-> "unset", show_err |-> FALSE, freeze |-> FALSE, serve |-> FALSE,
         cname |-> FALSE, before |-> config0, filtersBefore |-> << >>,
         routesBefore |-> {}, exc |-> "none"]

\* The record of the operation name, entered in the current state.
Op(name) == [NoOp EXCEPT !.name = name, !.before = config,
                         !.filtersBefore = filters, !.routesBefore = routes]

ConfigValues == [FREEZER_BASE_URL : ConfiguredUrls,
                 FREEZER_DESTINATION : ConfiguredPaths,
                 SERVER_NAME : ServerNames]

Init ==
    /\ selfBaseUrl \in ObjectUrls
    /\ config0 \in ConfigValues
    /\ config = config0
    /\ filters \in InitialFilters
    /\ routes = {}
    /\ pc = "idle"
    /\ exitCode = -1
    /\ nCalls = 0
    /\ op = NoOp
    /\ trace = << >>
    /\ lastRun = NoRun
    /\ lastDeploy = NoDeploy

\* The state after an operation that returned (or raised into the script).
Commit(st, o) ==
    /\ config' = st.config
    /\ filters' = st.filters
    /\ routes' = st.routes
    /\ trace' = st.trace
    /\ lastRun' = st.run
    /\ lastDeploy' = st.dep
    /\ op' = [o EXCEPT !.exc = st.exc]
    /\ UNCHANGED <<selfBaseUrl, config0>>

\* A method called by a script: an exception goes to the script, which goes on.
Returns(st, o) ==
    /\ Commit(st, o)
    /\ nCalls' = nCalls + 1
    /\ UNCHANGED <<pc, exitCode>>

\* A command of the command line: click runs it and ends the process.
Exits(st, o) ==
    /\ Commit(st, o)
    /\ pc' = "exited"
    /\ exitCode' = ExitCodeOf(st.exc)
    /\ UNCHANGED nCalls

CanCall == pc = "idle" /\ nCalls < MaxCalls

\* The command line runs on a newly made Elsa object (cli(app, ...)).
CanRun == pc = "idle" /\ nCalls = 0

CallFreeze ==
    /\ CanCall
    /\ \E path \in Paths, base_url \in ArgUrls, event \in FreezerEvents :
          Returns(Freeze(Enter, path, base_url, event),
                  [Op("Elsa.freeze") EXCEPT !.path = path, !.base_url = base_url])

CallServe ==
    /\ CanCall
    /\ Returns(Serve(Enter), Op("Elsa.serve"))

\* push and show_err default to False when the caller leaves them out.
CallDeploy ==
    /\ CanCall
    /\ \E path \in Paths, remote \in {"", "upstream"}, pushOpt \in PushOptions,
          show_err \in BOOLEAN, devent \in DeployEvents :
          Returns(Deploy(Enter, path, remote, pushOpt = "--push", show_err, devent),
                  [Op("Elsa.deploy") EXCEPT !.path = path, !.remote = remote,
                                            !.push = pushOpt, !.show_err = show_err])

CommandServe ==
    /\ CanRun
    /\ \E cname \in BOOLEAN :
          Exits(CliServe(Enter, cname), [Op("serve") EXCEPT !.cname = cname])

\* --base-url defaults to Elsa.base_url, --path to DefaultPath.
CommandFreeze ==
    /\ CanRun
    /\ \E path \in CliPaths, base_url \in ArgUrls \cup {selfBaseUrl}, serve \in BOOLEAN,
          cname \in BOOLEAN, event \in FreezerEvents :
          Exits(CliFreeze(Enter, path, base_url, serve, cname, event),
                [Op("freeze") EXCEPT !.path = path, !.base_url = base_url,
                                     !.serve = serve, !.cname = cname])

CommandDeploy ==
    /\ CanRun
    /\ \E path \in CliPaths, base_url \in ArgUrls \cup {selfBaseUrl}, remote \in Remotes,
          pushOpt \in PushOptions, freeze \in BOOLEAN, show_err \in BOOLEAN,
          cname \in BOOLEAN, event \in FreezerEvents, devent \in DeployEvents :
          Exits(CliDeploy(Enter, path, base_url, remote, pushOpt, freeze, show_err,
                          cname, event, devent),
                [Op("deploy") EXCEPT !.path = path, !.base_url = base_url,
                                     !.remote = remote, !.push = pushOpt,
                                     !.freeze = freeze, !.show_err = show_err,
                                     !.cname = cname])

Next ==
    \/ CallFreeze
    \/ CallServe
    \/ CallDeploy
    \/ CommandServe
    \/ CommandFreeze
    \/ CommandDeploy

Spec == Init /\ [][Next]_vars

----------------------------------------------------------------------------
(* Properties *)

InTrace(what) == \E i \in 1..Len(trace) : trace[i] = what
Count(what) == Cardinality({i \in 1..Len(trace) : trace[i] = what})
Before(first, second) ==
    /\ InTrace(first)
    /\ InTrace(second)
    /\ Find(trace, first) < Find(trace, second)

IsFreezeCall == op.name = "Elsa.freeze"
IsFreezingCommand == op.name = "freeze" \/ (op.name = "deploy" /\ op.freeze)

\* The last operation had no base URL from any of its three sources.
NoBaseUrlAnywhere ==
    /\ op.base_url = EmptyUrl
    /\ selfBaseUrl = EmptyUrl
    /\ op.before.FREEZER_BASE_URL = EmptyUrl

\* The last operation had no destination path from either of its two sources.
NoPathAnywhere ==
    /\ op.path = EmptyPath
    /\ op.before.FREEZER_DESTINATION = EmptyPath

\* C1: Elsa.freeze calls freezer.freeze() only with a non-empty resolved base
\* URL and a non-empty resolved destination path; when the base_url argument,
\* Elsa.base_url and FREEZER_BASE_URL are all empty, or the path argument and
\* FREEZER_DESTINATION are both empty, it raises the configuration error
\* (ValueError) and the freezer is never called.
C1_FreezerNeedsBaseUrlAndPath ==
    IsFreezeCall =>
        /\ (NoBaseUrlAnywhere \/ NoPathAnywhere) =>
              /\ op.exc = "ValueError"
              /\ ~lastRun.ran
              /\ ~InTrace("freezer.freeze")
        /\ lastRun.ran => (lastRun.base # EmptyUrl /\ lastRun.dest # EmptyPath)

\* C1 witness: a freeze with a base URL and no destination path anywhere failed.
C1_Witness ==
    /\ IsFreezeCall
    /\ NoPathAnywhere
    /\ ~NoBaseUrlAnywhere
    /\ op.exc = "ValueError"

FreezeFailed ==
    \/ op.base_url = EmptyUrl
    \/ NoPathAnywhere
    \/ (lastRun.ran /\ lastRun.outcome \in {"warn", "raise"})

\* C3: in the freeze command the server, and in the deploy command with
\* freezing the publisher, runs only after the freezer ran without error; when
\* the freeze fails the process exits non-zero and neither is reached.
C3_NoConsumerAfterFailedFreeze ==
    (pc = "exited" /\ IsFreezingCommand) =>
        /\ InTrace("serve") =>
              (Before("freezer.freeze", "serve") /\ lastRun.outcome = "clean")
        /\ InTrace("deploy_") =>
              (Before("freezer.freeze", "deploy_") /\ lastRun.outcome = "clean")
        /\ FreezeFailed =>
              (exitCode # 0 /\ ~InTrace("serve") /\ ~InTrace("deploy_")
               /\ lastDeploy.calls = 0)

\* C3 witness: the deploy command's freeze failed while rendering.
C3_Witness ==
    /\ pc = "exited"
    /\ op.name = "deploy"
    /\ op.freeze
    /\ lastRun.ran
    /\ lastRun.outcome = "warn"
    /\ exitCode = 1
    /\ lastDeploy.calls = 0

\* C4: with --cname a freezing command registers /CNAME before the freezer
\* runs, and what the route returns when the freezer renders it is the netloc of
\* the base URL of that freeze; with --no-cname the command registers no /CNAME.
C4_Cname ==
    (pc = "exited" /\ IsFreezingCommand) =>
        /\ (op.cname /\ lastRun.ran) =>
              /\ CnameRoute \in lastRun.routes
              /\ Before("inject_cname", "freezer.freeze")
              /\ lastRun.base = op.base_url
              /\ lastRun.cname = Netloc(op.base_url)
        /\ ~op.cname =>
              (CnameRoute \notin routes /\ CnameRoute \notin lastRun.routes
               /\ ~InTrace("inject_cname"))

\* C4 witness: a freeze command with --cname ran the freezer for a base URL
\* with a path, and the route's content was its host.
C4_Witness ==
    /\ pc = "exited"
    /\ op.name = "freeze"
    /\ op.cname
    /\ lastRun.ran
    /\ op.base_url = UrlHttpA
    /\ lastRun.cname = <<"a">>

\* C5: only the serve command attaches the shutdown route; the freezer never
\* runs with it attached, whether run by a command or by Elsa.freeze.
C5_ShutdownOnlyInServe ==
    /\ (ShutdownRoute \in routes \/ InTrace("inject_shutdown")) => op.name = "serve"
    /\ lastRun.ran => ShutdownRoute \notin lastRun.routes

\* C5 witness: a freezing command ran the freezer without the shutdown route.
C5_Witness ==
    /\ pc = "exited"
    /\ IsFreezingCommand
    /\ lastRun.ran
    /\ ShutdownRoute \notin lastRun.routes

\* What a freeze call's outcome consists of: whether it failed with the
\* configuration error, and the base URL, destination path and server name the
\* freezer ran with.
Outcome(exc, run) == <<exc = "ValueError", run.ran, run.base, run.dest, run.server>>

\* The last freeze call made instead on the configuration that existed before
\* the first call.
FreshFreeze ==
    Freeze([config |-> config0, filters |-> op.filtersBefore,
            routes |-> op.routesBefore, trace |-> << >>, run |-> NoRun,
            dep |-> NoDeploy, exc |-> "none"],
           op.path, op.base_url, "clean")

SameAsFresh == Outcome(op.exc, lastRun) = Outcome(FreshFreeze.exc, FreshFreeze.run)

C8_ResolvedConfiguration ==
    (op.name \in {"Elsa.freeze", "freeze", "deploy"} /\ lastRun.ran) =>
        LET b == IF op.base_url # EmptyUrl THEN op.base_url
                 ELSE IF selfBaseUrl # EmptyUrl THEN selfBaseUrl
                 ELSE op.before.FREEZER_BASE_URL
            p == IF op.path # EmptyPath THEN op.path
                 ELSE op.before.FREEZER_DESTINATION
        IN /\ b # EmptyUrl
           /\ lastRun.base = b
           /\ lastRun.server = Netloc(b)
           /\ lastRun.dest = p
           /\ config.FREEZER_BASE_URL = b
           /\ config.SERVER_NAME = Netloc(b)
           /\ config.FREEZER_DESTINATION = p

\* C8 witness: a freeze without arguments on an object without base_url ran the
\* freezer on the configured base URL and destination.
C8_Witness ==
    /\ IsFreezeCall
    /\ op.base_url = EmptyUrl
    /\ selfBaseUrl = EmptyUrl
    /\ op.path = EmptyPath
    /\ lastRun.ran
    /\ lastRun.base = UrlSchemeless
    /\ lastRun.server = <<"c">>
    /\ lastRun.dest = "dst"

\* C9 as stated: an Elsa.freeze that fails with the configuration error leaves
\* the application configuration and the warning filters as they were.
C9_Original ==
    (IsFreezeCall /\ op.exc = "ValueError") =>
        (config = op.before /\ filters = op.filtersBefore)

\* The arguments claim C10 states: the deploy command calls deploy_ with push true
\* exactly when --no-push was not given (after the deprecation warning when
\* neither option was given), the given remote and the given show_err;
\* Elsa.deploy calls it with push false unless passed, the given remote
\* (origin by default) and show_err false unless passed.
DeployArguments ==
    /\ op.name = "deploy" =>
          /\ lastDeploy.push = (op.push # "--no-push")
          /\ op.push = "unset" => Before("emit_warning", "deploy_")
          /\ op.push # "unset" => ~InTrace("emit_warning")
          /\ lastDeploy.remote = op.remote
          /\ lastDeploy.path = op.path
          /\ lastDeploy.show_err = op.show_err
    /\ op.name = "Elsa.deploy" =>
          /\ lastDeploy.push = (op.push = "--push")
          /\ lastDeploy.remote = (IF op.remote = "" THEN "origin" ELSE op.remote)
          /\ lastDeploy.show_err = op.show_err

\* C10 as stated, for the last operation: exactly one call of deploy_, with the
\* arguments above.
C10_Original ==
    op.name \in {"deploy", "Elsa.deploy"} =>
        (lastDeploy.calls = 1 /\ Count("deploy_") = 1 /\ DeployArguments)

\* C10 amended: deploy_ is called exactly once, with the arguments as stated,
\* by Elsa.deploy and by a deploy command whose freeze (when enabled) completed
\* without error; a deploy command whose freeze failed does not call it, and
\* still emits the deprecation warning when neither push option was given.
C10_DeployCalledOnceUnlessFreezeFailed ==
    /\ (op.name = "Elsa.deploy" \/ (op.name = "deploy" /\ ~(op.freeze /\ FreezeFailed))) =>
          (lastDeploy.calls = 1 /\ Count("deploy_") = 1 /\ DeployArguments)
    /\ (op.name = "deploy" /\ op.freeze /\ FreezeFailed) =>
          /\ lastDeploy.calls = 0
          /\ Count("deploy_") = 0
          /\ (op.push = "unset") = InTrace("emit_warning")

\* C10 witness: a deploy command without --push/--no-push froze cleanly,
\* warned, and called deploy_ with push true under -W ignore.
C10_Witness ==
    /\ op.name = "deploy"
    /\ op.push = "unset"
    /\ op.freeze
    /\ lastRun.ran
    /\ op.filtersBefore = <<Filter("ignore", AnyWarning)>>
    /\ Before("emit_warning", "deploy_")
    /\ lastDeploy.calls = 1
    /\ lastDeploy.push

====
